---- MODULE Spec2Model ----
(***************************************************************************)
(* Model of ServidorMonitorAgua (monitor_agua_pagina/servidor.py): the     *)
(* WebSocket router that classifies connections as Device (ESP32) or       *)
(* Observer (web browser), keeps the session buffer, the session history   *)
(* and its JSON snapshot, and fans broadcasts out to the observers.        *)
(*                                                                         *)
(* asyncio runs one task per connection on one thread.  A task runs        *)
(* without interruption from one suspension point to the next; the         *)
(* suspension points are recv() and every send().  One action of this      *)
(* model is one such atomic run of one task: it resumes the task, executes *)
(* its synchronous code and ends with at most one send() or with the task  *)
(* waiting in recv().  A client may close its connection at any time; the  *)
(* server learns of it when a send to that connection raises or when its   *)
(* recv() raises, so the close is decided at those points.  The exception  *)
(* of a failed send is handled when the task is resumed.                   *)
(***************************************************************************)
EXTENDS Integers, Sequences, FiniteSets, TLC

\* ------------------------------------------------------------- bounds
NConn == 2         \* connections the server accepts, 1..NConn
MaxReadings == 2   \* readings the Device loops receive in total
MaxTime == 1       \* the clock (seconds) runs 0..MaxTime

Conns == 1..NConn
\* create_task() in save_session_to_history: one task per Device cleanup
TaskOf(c) == NConn + c
Tasks == 1..(2 * NConn)
None == 0          \* Python None for a connection handle

\* ------------------------------------------------------------- JSON values
\* A field of a decoded message: absent, a number, null, or a string.
\* Numbers are 32-bit integers; what lies above is Huge.
Absent == [t |-> "absent", v |-> 0]
Null == [t |-> "null", v |-> 0]
\* A string: v is 0 for the empty string and tags the others
Str == [t |-> "str", v |-> 1]
EmptyStr == [t |-> "str", v |-> 0]
NoDisponible == [t |-> "str", v |-> 2]   \* "No disponible"
Num(n) == [t |-> "num", v |-> n]
\* A number above every date dt.datetime.fromtimestamp accepts (a millisecond
\* epoch, 1e18, Infinity): it compares as greater than every integer
Huge == [t |-> "huge", v |-> 2147483647]

\* d.get(key, 0): the default replaces an absent key only
Get0(x) == IF x.t = "absent" THEN Num(0) ELSE x
\* d.get(key, '?'): the default is a string
GetQ(x) == IF x.t = "absent" THEN Str ELSE x
\* bool(d.get(key)): None, a missing key, 0 and the empty string are falsy
Truthy(x) == x.t \in {"num", "huge", "str"} /\ x.v # 0
\* x > n and x >= n raise TypeError unless x is a number
IsNum(x) == x.t \in {"num", "huge"}

\* The measured fields of a reading (values scaled by 10)
Body(rn, te, ph, tu, td) ==
    [reading_number |-> rn, temperature |-> te, ph |-> ph, turbidity |-> tu, tds |-> td,
     rtc_datetime |-> Absent, rtc_timestamp |-> Absent]
\* the reading b with the clock fields rtc_datetime and rtc_timestamp
WithRtc(b, rtcDatetime, rtcTimestamp) ==
    [b EXCEPT !.rtc_datetime = rtcDatetime, !.rtc_timestamp = rtcTimestamp]
NoBody == Body(Absent, Absent, Absent, Absent, Absent)
BodyA == Body(Num(1), Num(200), Num(65), Num(10), Num(300))
BodyB == Body(Num(2), Num(220), Num(70), Absent, Absent)
BodyNoTemp == Body(Num(3), Absent, Num(-10), Num(-10), Num(20))
BodyBadPh == Body(Num(4), Num(240), Str, Num(10), Num(10))
BodyBadTemp == Body(Num(5), Str, Num(75), Num(10), Num(10))
BodyEmptyTemp == Body(Num(6), EmptyStr, Num(70), Num(10), Num(10))
BodyRtcNull == WithRtc(Body(Num(7), Num(200), Num(65), Num(10), Num(300)), Absent, Null)
\* a clock in seconds, a clock in milliseconds, and the latter beside a date
BodyRtcSeconds ==
    WithRtc(Body(Num(8), Num(200), Num(65), Num(10), Num(300)), Absent, Num(1700000000))
BodyRtcHuge == WithRtc(Body(Num(9), Num(200), Num(65), Num(10), Num(300)), Absent, Huge)
BodyRtcHugeDated == WithRtc(Body(Num(10), Num(200), Num(65), Num(10), Num(300)), Str, Huge)

\* ------------------------------------------------------------- client messages
\* json: "obj" a JSON object; "bad" not JSON (json.JSONDecodeError); "arr" no
\* mapping: JSON that is no object, whose .get raises AttributeError, or bytes
\* that are no UTF-8, for which json.loads raises UnicodeDecodeError.
\* type, action, device_id are "" when the key is absent; session_id is -1.
NoSid == -1
Msg(ty, ac, dev, sid, body) ==
    [json |-> "obj", type |-> ty, action |-> ac, device_id |-> dev,
     session_id |-> sid, body |-> body, total |-> Absent]
BadJson == [Msg("", "", "", NoSid, NoBody) EXCEPT !.json = "bad"]
ArrJson == [Msg("", "", "", NoSid, NoBody) EXCEPT !.json = "arr"]
NoMsg == [Msg("", "", "", NoSid, NoBody) EXCEPT !.json = "none"]
Hello == Msg("web_browser", "", "", NoSid, NoBody)
Reading(b) == Msg("", "", "ESP32_WaterMonitor", NoSid, b)
Delete(sid) == Msg("delete_session", "", "", sid, NoBody)
RequestData == Msg("request_data", "", "", NoSid, NoBody)
RequestHistory == Msg("request_sessions_history", "", "", NoSid, NoBody)
Calibrate == Msg("", "calibrate", "", NoSid, NoBody)
GetCalibration == Msg("", "get_calibration", "", NoSid, NoBody)
SendingData == Msg("", "sending_data", "", NoSid, NoBody)
DataComplete == Msg("", "data_complete", "", NoSid, NoBody)
DataCompleteOf(n) == [DataComplete EXCEPT !.total = Num(n)]
Other == Msg("status", "", "", NoSid, NoBody)
\* messages that carry more than one discriminator
CalibrateRequest == Msg("request_data", "calibrate", "", NoSid, NoBody)
ReadingComplete == Msg("", "data_complete", "ESP32_WaterMonitor", NoSid, BodyA)

\* A reading in the session buffer: the decoded dict.  uid is the object's
\* identity (its arrival number), conn the connection that delivered it.
Rd(uid, c, body) == [uid |-> uid, conn |-> c, body |-> body]
NoRd == Rd(0, 0, NoBody)

\* ------------------------------------------------------------- server messages
StatusMsg(conectado) == [type |-> "esp32_status", connected |-> conectado]
Saludo(t) == [type |-> "saludo", status |-> "conectado", timestamp |-> t]
SessionSaved(sid, n) == [type |-> "session_saved", session_id |-> sid, total_sessions |-> n]
SessionDeleted(sid, n) ==
    [type |-> "session_deleted", success |-> TRUE, session_id |-> sid, total_sessions |-> n]
SessionNotDeleted(why) == [type |-> "session_deleted", success |-> FALSE, message |-> why]
SessionsHistory(h) == [type |-> "sessions_history", sessions |-> h]
DownloadError(why) == [type |-> "download_error", message |-> why]
DownloadStart(t) == [type |-> "download_start", timestamp |-> t]
DownloadComplete(n, t) == [type |-> "download_complete", total |-> n, timestamp |-> t]
RequestAll(t) == [type |-> "request_all_data", action |-> "request_all_data", timestamp |-> t]
Confirmacion(rn) == [type |-> "confirmacion", status |-> "received", reading_number |-> rn]
NoConectado == [type |-> "error", status |-> "error", message |-> "ESP32 no conectado"]
Forward(m) == [type |-> "forward", datos |-> m]
ReadingMsg(rd) == [type |-> "reading", datos |-> rd]

VARIABLES
    now,                \* dt.datetime.now(), in seconds
    open,               \* open[c]: connection c is not known to be closed
    pc,                 \* pc[t]: where task t is suspended
    k,                  \* k[t]: the code task t resumes at
    bcast,              \* bcast[t]: the fan-out task t is in
    cur,                \* cur[c]: the reading procesar_datos_sensor(c) handles
    conexion_esp32,
    conexiones_web,
    esperando_datos,
    session_data,
    session_start_time,
    sessions_history,
    sessions_file,      \* the JSON snapshot on disk
    total_mensajes,
    archivo_csv,        \* the rows of the CSV log
    trace,              \* what the last action did, in order
    role,               \* role[c]: how connection c was classified
    lastDev,            \* the Device connection classified last
    rx,                 \* rx[c]: the readings the loop of Device c received
    arrivals,           \* the readings all Device loops received, in order
    mark,               \* Len(arrivals) when the last Device was classified
    cleanup,            \* cleanup[c]: the stages of c's disconnect cleanup
    pendingFor,         \* the Device a request_data was forwarded to, None once
                        \* a DownloadComplete has been processed
    asked               \* asked[c]: a request was pending for Device c when
                        \* its loop received its last reading

vars == <<now, open, pc, k, bcast, cur, conexion_esp32, conexiones_web,
          esperando_datos, session_data, session_start_time, sessions_history,
          sessions_file, total_mensajes, archivo_csv, trace, role, lastDev, rx,
          arrivals, mark, cleanup, pendingFor, asked>>

\* The state as one record, so that the code's functions are operators from
\* state to state and compose the way the calls do.
State ==
    [now |-> now, open |-> open, pc |-> pc, k |-> k, bcast |-> bcast,
     cur |-> cur, conexion_esp32 |-> conexion_esp32, conexiones_web |-> conexiones_web,
     esperando_datos |-> esperando_datos, session_data |-> session_data,
     session_start_time |-> session_start_time, sessions_history |-> sessions_history,
     sessions_file |-> sessions_file, total_mensajes |-> total_mensajes,
     archivo_csv |-> archivo_csv, trace |-> trace, role |-> role, lastDev |-> lastDev,
     rx |-> rx, arrivals |-> arrivals, mark |-> mark, cleanup |-> cleanup,
     pendingFor |-> pendingFor, asked |-> asked]

Assign(s) ==
    /\ now' = s.now /\ open' = s.open /\ pc' = s.pc /\ k' = s.k
    /\ bcast' = s.bcast /\ cur' = s.cur /\ conexion_esp32' = s.conexion_esp32
    /\ conexiones_web' = s.conexiones_web /\ esperando_datos' = s.esperando_datos
    /\ session_data' = s.session_data /\ session_start_time' = s.session_start_time
    /\ sessions_history' = s.sessions_history /\ sessions_file' = s.sessions_file
    /\ total_mensajes' = s.total_mensajes /\ archivo_csv' = s.archivo_csv
    /\ trace' = s.trace /\ role' = s.role /\ lastDev' = s.lastDev /\ rx' = s.rx
    /\ cleanup' = s.cleanup /\ arrivals' = s.arrivals /\ mark' = s.mark
    /\ pendingFor' = s.pendingFor
    /\ asked' = s.asked

\* ------------------------------------------------------------- helpers
RECURSIVE SumSeq(_)
SumSeq(q) == IF q = <<>> THEN 0 ELSE Head(q) + SumSeq(Tail(q))
RECURSIVE MinSeq(_)
MinSeq(q) ==
    IF Len(q) = 1 THEN q[1]
    ELSE LET m == MinSeq(Tail(q)) IN IF q[1] <= m THEN q[1] ELSE m
RECURSIVE MaxSeq(_)
MaxSeq(q) ==
    IF Len(q) = 1 THEN q[1]
    ELSE LET m == MaxSeq(Tail(q)) IN IF q[1] >= m THEN q[1] ELSE m

Event(s, ev) == [s EXCEPT !.trace = Append(@, ev)]

\* await websocket.send(msg) by task t.  sok: the client has not closed the
\* connection by now.  The send delivers msg, or raises ConnectionClosed.
Sent(s, to, sok) == s.open[to] /\ sok
SendTo(s, t, to, msg, sok) ==
    Event([s EXCEPT !.open = [c \in Conns |-> IF c = to THEN Sent(s, to, sok) ELSE @[c]]],
          [e |-> "send", by |-> t, to |-> to, msg |-> msg, ok |-> Sent(s, to, sok)])

\* the task is suspended and resumes at label
Park(s, t, label) == [s EXCEPT !.pc[t] = "resume", !.k[t] = label]
\* the task waits in recv()
Wait(s, t, loop) == [s EXCEPT !.pc[t] = loop, !.k[t] = "none"]
\* the task has ended; the server closes the connection of a handler that returns
Done(s, t) ==
    [s EXCEPT !.pc[t] = "done", !.k[t] = "none",
              !.open = [c \in Conns |-> IF c = t THEN FALSE ELSE @[c]]]
\* after a send: go on at okLabel, or handle the exception at failLabel
AfterSend(s, t, ok, okLabel, failLabel) ==
    IF ~ok THEN Park(s, t, failLabel)
    ELSE IF okLabel \in {"d_loop", "o_loop"} THEN Wait(s, t, okLabel)
    ELSE Park(s, t, okLabel)

\* ------------------------------------------------------------- session summary
\* One quantity's values: [d.get(f, 0) for d in session_data if keep(d)]
Stats(q) ==
    [avg |-> IF q = <<>> THEN <<0, 1>> ELSE <<SumSeq(q), Len(q)>>,
     min |-> IF q = <<>> THEN 0 ELSE MinSeq(q),
     max |-> IF q = <<>> THEN 0 ELSE MaxSeq(q)]

Temps(data) ==
    LET kept == SelectSeq(data, LAMBDA d : Truthy(d.body.temperature))
    IN [i \in 1..Len(kept) |-> kept[i].body.temperature.v]
Phs(data) ==
    LET kept == SelectSeq(data, LAMBDA d : Get0(d.body.ph).v > 0)
    IN [i \in 1..Len(kept) |-> kept[i].body.ph.v]
Turbs(data) ==
    LET kept == SelectSeq(data, LAMBDA d : Get0(d.body.turbidity).v >= 0)
    IN [i \in 1..Len(kept) |-> Get0(kept[i].body.turbidity).v]
TdsVals(data) ==
    LET kept == SelectSeq(data, LAMBDA d : Get0(d.body.tds).v >= 0)
    IN [i \in 1..Len(kept) |-> Get0(kept[i].body.tds).v]

\* get_session_summary raises TypeError: a comparison with a value that is no
\* number, or sum() over a string
SummaryRaises(data) ==
    \E i \in 1..Len(data) :
        \/ ~IsNum(Get0(data[i].body.ph))
        \/ ~IsNum(Get0(data[i].body.turbidity))
        \/ ~IsNum(Get0(data[i].body.tds))
        \/ data[i].body.temperature.t = "str" /\ Truthy(data[i].body.temperature)

get_session_summary(data) ==
    IF data = <<>> THEN [empty |-> TRUE]
    ELSE [temperature |-> Stats(Temps(data)), ph |-> Stats(Phs(data)),
          turbidity |-> Stats(Turbs(data)), tds |-> Stats(TdsVals(data))]

\* ------------------------------------------------------------- snapshot file
\* with open(sessions_file, 'w'): json.dump(sessions_history).  The write
\* succeeds, or open() raises and the file is untouched, or json.dump raises
\* after open() truncated the file.
WriteResults == {"ok", "noopen", "partial"}
WriteFile(s, wres) ==
    Event([s EXCEPT !.sessions_file =
                        CASE wres = "ok" -> [valid |-> TRUE, content |-> s.sessions_history]
                          [] wres = "partial" -> [valid |-> FALSE, content |-> <<>>]
                          [] OTHER -> @],
          [e |-> "write", ok |-> wres = "ok"])

\* ------------------------------------------------------------- broadcast
NoBcast == [msg |-> [type |-> "none"], todo |-> {}, failed |-> {}, ret |-> "none"]

\* A continuation that starts no broadcast
ContSimple(s, t, label, sok) ==
    CASE label = "greet" ->
            AfterSend(SendTo(s, t, t, Saludo(s.now), sok), t, Sent(s, t, sok),
                      "d_loop", "d_finally")
      [] label = "ack" ->
            LET s1 == [s EXCEPT !.cur[t] = NoRd] IN
            IF s.esperando_datos
            THEN AfterSend(SendTo(s1, t, t,
                                  Confirmacion(GetQ(s.cur[t].body.reading_number)), sok),
                           t, Sent(s, t, sok), "d_loop", "d_finally")
            ELSE Wait(s1, t, "d_loop")
      [] label = "d_loop" -> Wait(s, t, "d_loop")
      [] label = "o_loop" -> Wait(s, t, "o_loop")
      [] label = "end_device" ->
            Done([s EXCEPT !.cleanup[t] = Append(@, "notify")], t)
      [] OTHER -> Done(s, t)

\* one pass of the loop had it dropped a failed observer from the registry at
\* once
BroadcastSend_prunes(s, t, w, sok) ==
    LET s1 == SendTo(s, t, w, s.bcast[t].msg, sok)
    IN Park([s1 EXCEPT !.bcast[t].todo = @ \ {w},
                       !.conexiones_web = IF Sent(s, w, sok) THEN @ ELSE @ \ {w}],
            t, "bcast")

\* one pass of `for websocket in list(self.conexiones_web)`: send to w
BroadcastSend(s, t, w, sok) ==
    LET s1 == SendTo(s, t, w, s.bcast[t].msg, sok)
    IN Park([s1 EXCEPT !.bcast[t].todo = @ \ {w},
                       !.bcast[t].failed = IF Sent(s, w, sok) THEN @ ELSE @ \cup {w}],
            t, "bcast")

\* the loop is over: `for ws in desconexiones: self.conexiones_web.discard(ws)`
BroadcastEnd(s, t, sok) ==
    ContSimple([s EXCEPT !.conexiones_web = @ \ s.bcast[t].failed,
                         !.bcast[t] = NoBcast],
               t, s.bcast[t].ret, sok)

\* await self.broadcast_navegadores(msg), then go on at ret.  env.w is the
\* observer list(self.conexiones_web) yields first.
broadcast_navegadores(s, t, msg, ret, env) ==
    IF s.conexiones_web = {} THEN ContSimple(s, t, ret, env.sok)
    ELSE BroadcastSend([s EXCEPT !.bcast[t] = [msg |-> msg, todo |-> s.conexiones_web,
                                               failed |-> {}, ret |-> ret]],
                       t, env.w, env.sok)

notificar_estado_esp32(s, t, conectado, ret, env) ==
    broadcast_navegadores(s, t, StatusMsg(conectado), ret, env)

\* ------------------------------------------------------------- session close
Session(sid, start, end, data) ==
    [session_id |-> sid, start_time |-> start, end_time |-> end,
     total_readings |-> Len(data), data |-> data,
     summary |-> get_session_summary(data)]

\* save_session_to_history() past its check for an empty buffer: the session
\* is built, appended and written, and the session_saved broadcast scheduled.
\* Returns the new state and whether the call raised.
AppendSession(s, c, wres) ==
    IF SummaryRaises(s.session_data) THEN [s |-> s, raised |-> TRUE]
    ELSE
        LET session == Session(s.now, s.session_start_time, s.now, s.session_data)
            s1 == Event([s EXCEPT !.sessions_history = Append(@, session)],
                        [e |-> "append", by |-> c, session |-> session])
            s2 == WriteFile(s1, wres)
            saved == SessionSaved(session.session_id, Len(s1.sessions_history))
            \* asyncio.create_task(self.broadcast_navegadores(...))
            s3 == Event([s2 EXCEPT !.pc[TaskOf(c)] = "resume",
                                   !.k[TaskOf(c)] = "task",
                                   !.bcast[TaskOf(c)] = [NoBcast EXCEPT !.msg = saved,
                                                                        !.ret = "end"]],
                        [e |-> "create_task", by |-> c, msg |-> saved])
        IN [s |-> IF wres = "ok" THEN s3 ELSE s2, raised |-> FALSE]

\* save_session_to_history had it no check for an empty buffer
save_session_to_history_unchecked(s, c, wres) == AppendSession(s, c, wres)

\* save_session_to_history(), called by the cleanup of Device connection c
save_session_to_history(s, c, wres) ==
    IF s.session_data = <<>> THEN [s |-> s, raised |-> FALSE]
    ELSE AppendSession(s, c, wres)

\* the finally block of manejar_esp32
Finally(s, c, env) ==
    LET s0 == Event([s EXCEPT !.cleanup[c] = Append(@, "close")],
                    [e |-> "finally", by |-> c])
        r == save_session_to_history(s0, c, env.wres)
        s1 == Event([r.s EXCEPT !.conexion_esp32 = None,
                                !.cleanup[c] = Append(@, "clear")],
                    [e |-> "clear", by |-> c])
    IN IF r.raised THEN Done(Event(r.s, [e |-> "raised", by |-> c]), c)
       ELSE notificar_estado_esp32(s1, c, FALSE, "end_device", env)

\* ------------------------------------------------------------- Device
\* manejar_esp32 had it kept a Device handle that is already registered
manejar_esp32_first_wins(s, c, env) ==
    LET s1 == [s EXCEPT !.conexion_esp32 = IF @ = None THEN c ELSE @,
                        !.session_data = <<>>,
                        !.session_start_time = s.now]
    IN notificar_estado_esp32(s1, c, TRUE, "greet", env)

\* manejar_esp32 up to its first suspension
manejar_esp32(s, c, env) ==
    LET s1 == [s EXCEPT !.conexion_esp32 = c,
                        !.session_data = <<>>,
                        !.session_start_time = s.now]
    IN notificar_estado_esp32(s1, c, TRUE, "greet", env)

\* the first second of 2021: a clock beyond it counts as set
RtcEpoch == 1609459200
\* dt.datetime.fromtimestamp(x) raises ValueError, OSError or OverflowError
\* for a number beyond the dates it can hold
FromTimestampRaises(x) == x.t = "huge"
\* datos.get('rtc_timestamp', 0) > 1609459200 raises TypeError unless the
\* value is a number; a number beyond it is converted by fromtimestamp
RtcRaises(body) ==
    LET rtc_timestamp == Get0(body.rtc_timestamp)
    IN \/ ~IsNum(rtc_timestamp)
       \/ rtc_timestamp.v > RtcEpoch /\ FromTimestampRaises(rtc_timestamp)

\* guardar_en_csv: one row appended, or the exception swallowed.  cok: the
\* file could be opened and written.
guardar_en_csv(s, rd, cok) ==
    LET written == cok /\ ~RtcRaises(rd.body) IN
    Event([s EXCEPT !.archivo_csv = IF written THEN Append(@, rd.uid) ELSE @],
          [e |-> "csv", rd |-> rd, ok |-> written])

\* the prints of procesar_datos_sensor raise: rtc_timestamp is compared
\* unless rtc_datetime is given, and f"{temp:.1f}" needs a number
PrintRaises(body) ==
    LET given == Truthy(body.rtc_datetime) /\ body.rtc_datetime # NoDisponible
    IN \/ ~given /\ RtcRaises(body)
       \/ ~IsNum(Get0(body.temperature))

\* what procesar_datos_sensor does once the reading rd is in the buffer
ProcessBuffered(s, c, m, rd, env) ==
    LET s1 == Event([s EXCEPT !.total_mensajes = @ + 1], [e |-> "buffer", rd |-> rd])
        s2 == guardar_en_csv(s1, rd, env.cok)
    IN IF PrintRaises(m.body) THEN Finally(s2, c, env)
       ELSE broadcast_navegadores([s2 EXCEPT !.cur[c] = rd], c, ReadingMsg(rd), "ack", env)

\* procesar_datos_sensor had it put the reading at the head of the buffer
procesar_datos_sensor_prepend(s, c, m, env) ==
    LET rd == Rd(s.total_mensajes + 1, c, m.body)
    IN ProcessBuffered([s EXCEPT !.session_data = <<rd>> \o @], c, m, rd, env)

procesar_datos_sensor(s, c, m, env) ==
    LET rd == Rd(s.total_mensajes + 1, c, m.body)
    IN ProcessBuffered([s EXCEPT !.session_data = Append(@, rd)], c, m, rd, env)

finalizar_descarga(s, c, total, env) ==
    broadcast_navegadores([s EXCEPT !.esperando_datos = FALSE], c,
                          DownloadComplete(total, s.now), "d_loop", env)

iniciar_descarga(s, c, env) ==
    broadcast_navegadores(s, c, DownloadStart(s.now), "d_loop", env)

procesar_comando_calibracion(s, c, m, sok) ==
    AfterSend(SendTo(s, c, c, Forward(m), sok), c, Sent(s, c, sok), "d_loop", "d_finally")

\* the body of `async for mensaje in websocket` in manejar_esp32
DeviceDispatch(s, c, m, env) ==
    CASE m.json = "bad" -> Wait(s, c, "d_loop")
      [] m.json = "arr" -> Finally(s, c, env)
      [] m.action \in {"calibrate", "get_calibration"} ->
            procesar_comando_calibracion(s, c, m, env.sok)
      [] m.action = "sending_data" -> iniciar_descarga(s, c, env)
      [] m.device_id = "ESP32_WaterMonitor" -> procesar_datos_sensor(s, c, m, env)
      [] m.action = "data_complete" -> finalizar_descarga(s, c, Get0(m.total), env)
      [] OTHER -> Wait(s, c, "d_loop")

\* ------------------------------------------------------------- Observer
\* manejar_navegador up to its first suspension; a failure of this send is
\* raised outside the try and ends the task without the finally block
manejar_navegador(s, c, sok) ==
    LET s1 == [s EXCEPT !.conexiones_web = @ \cup {c}]
    IN AfterSend(SendTo(s1, c, c, StatusMsg(s.conexion_esp32 # None), sok),
                 c, Sent(s, c, sok), "o_loop", "end")

\* the finally block of manejar_navegador
ObserverFinally(s, c) == Done([s EXCEPT !.conexiones_web = @ \ {c}], c)

enviar_historial_sesiones(s, c, sok) ==
    Wait(SendTo(s, c, c, SessionsHistory(s.sessions_history), sok), c, "o_loop")

\* index of the first session whose session_id is sid, 0 if there is none
FirstMatch(h, sid) ==
    IF \E i \in 1..Len(h) : h[i].session_id = sid
    THEN CHOOSE i \in 1..Len(h) :
            /\ h[i].session_id = sid
            /\ \A j \in 1..(i - 1) : h[j].session_id # sid
    ELSE 0

\* list.pop(i) had it been a filter on the identifier
Pop_every(h, i) == SelectSeq(h, LAMBDA x : x.session_id # h[i].session_id)

\* list.pop(i)
Pop(h, i) == [j \in 1..(Len(h) - 1) |-> IF j < i THEN h[j] ELSE h[j + 1]]

\* eliminar_sesion had it put the session back when the rewrite failed
SesionEncontrada_restores(s, c, sid, i, env) ==
    LET ok == Sent(s, c, env.sok)
        s1 == Event([s EXCEPT !.sessions_history = Pop(@, i)],
                    [e |-> "pop", by |-> c, index |-> i])
        s2 == WriteFile(s1, env.wres)
        s3 == [s2 EXCEPT !.sessions_history = s.sessions_history]
    IN IF env.wres = "ok"
       THEN AfterSend(SendTo(s2, c, c, SessionDeleted(sid, Len(s2.sessions_history)),
                             env.sok),
                      c, ok, "del_hist", "del_err")
       ELSE AfterSend(SendTo(s3, c, c, SessionNotDeleted("Error"), env.sok),
                      c, ok, "o_loop", "o_finally")

\* eliminar_sesion when the session at index i was found
SesionEncontrada(s, c, sid, i, env) ==
    LET ok == Sent(s, c, env.sok)
        s1 == Event([s EXCEPT !.sessions_history = Pop(@, i)],
                    [e |-> "pop", by |-> c, index |-> i])
        s2 == WriteFile(s1, env.wres)
    IN IF env.wres = "ok"
       THEN AfterSend(SendTo(s2, c, c, SessionDeleted(sid, Len(s2.sessions_history)),
                             env.sok),
                      c, ok, "del_hist", "del_err")
       ELSE AfterSend(SendTo(s2, c, c, SessionNotDeleted("Error"), env.sok),
                      c, ok, "o_loop", "o_finally")

\* the reply to a request that found no session, had the snapshot been
\* rewritten on that path too
SesionNoEncontrada_rewrites(s, c, env) ==
    AfterSend(SendTo(WriteFile(s, env.wres), c, c,
                     SessionNotDeleted("Sesion no encontrada"), env.sok),
              c, Sent(s, c, env.sok), "o_loop", "del_err")

\* eliminar_sesion when no session was found
SesionNoEncontrada(s, c, env) ==
    AfterSend(SendTo(s, c, c, SessionNotDeleted("Sesion no encontrada"), env.sok),
              c, Sent(s, c, env.sok), "o_loop", "del_err")

eliminar_sesion(s, c, sid, env) ==
    LET i == FirstMatch(s.sessions_history, sid)
    IN IF i # 0 THEN SesionEncontrada(s, c, sid, i, env)
       ELSE SesionNoEncontrada(s, c, env)

\* solicitar_datos_esp32 had it marked the download pending before the send
\* to the Device
solicitar_datos_esp32_eager(s, c, env) ==
    IF s.conexion_esp32 = None
    THEN broadcast_navegadores(s, c, DownloadError("ESP32 no conectado"), "o_loop", env)
    ELSE AfterSend(SendTo([s EXCEPT !.esperando_datos = TRUE],
                          c, s.conexion_esp32, RequestAll(s.now), env.sok),
                   c, Sent(s, s.conexion_esp32, env.sok), "solic_ok", "solic_fail")

\* solicitar_datos_esp32 had it marked the download pending before it looked
\* for the Device
solicitar_datos_esp32_flags(s, c, env) ==
    LET s1 == [s EXCEPT !.esperando_datos = TRUE] IN
    IF s.conexion_esp32 = None
    THEN broadcast_navegadores(s1, c, DownloadError("ESP32 no conectado"), "o_loop", env)
    ELSE AfterSend(SendTo(s1, c, s.conexion_esp32, RequestAll(s.now), env.sok),
                   c, Sent(s, s.conexion_esp32, env.sok), "solic_ok", "solic_fail")

solicitar_datos_esp32(s, c, env) ==
    IF s.conexion_esp32 = None
    THEN broadcast_navegadores(s, c, DownloadError("ESP32 no conectado"), "o_loop", env)
    ELSE AfterSend(SendTo(s, c, s.conexion_esp32, RequestAll(s.now), env.sok),
                   c, Sent(s, s.conexion_esp32, env.sok), "solic_ok", "solic_fail")

\* the body of `async for mensaje in websocket` in manejar_navegador
ObserverDispatch(s, c, m, env) ==
    CASE m.json = "bad" -> Wait(s, c, "o_loop")
      [] m.json = "arr" -> ObserverFinally(s, c)
      [] m.type = "request_data" -> solicitar_datos_esp32(s, c, env)
      [] m.type = "request_sessions_history" -> enviar_historial_sesiones(s, c, env.sok)
      [] m.type = "delete_session" -> eliminar_sesion(s, c, m.session_id, env)
      [] m.action \in {"calibrate", "get_calibration"} ->
            IF s.conexion_esp32 # None
            THEN AfterSend(SendTo(s, c, s.conexion_esp32, Forward(m), env.sok),
                           c, Sent(s, s.conexion_esp32, env.sok), "o_loop", "o_finally")
            ELSE AfterSend(SendTo(s, c, c, NoConectado, env.sok),
                           c, Sent(s, c, env.sok), "o_loop", "o_finally")
      [] OTHER -> Wait(s, c, "o_loop")

\* ------------------------------------------------------------- classification
\* the handler manejar_conexion hands connection c to
Classified(s, c, as) ==
    Event([s EXCEPT !.role[c] = as,
                    !.lastDev = IF as = "device" THEN c ELSE @,
                    !.mark = IF as = "device" THEN Len(s.arrivals) ELSE @],
          [e |-> as, by |-> c])

\* manejar_conexion once the first message m has arrived
manejar_conexion(s, c, m, env) ==
    CASE m.json # "obj" -> Done(s, c)
      [] m.type = "web_browser" -> manejar_navegador(Classified(s, c, "observer"), c, env.sok)
      [] OTHER -> manejar_esp32(Classified(s, c, "device"), c, env)

\* ------------------------------------------------------------- resumption
\* task t runs on from the label it was suspended at
Cont(s, t, env) ==
    LET label == s.k[t] IN
    CASE label = "bcast" ->
            IF s.bcast[t].todo # {} THEN BroadcastSend(s, t, env.w, env.sok)
            ELSE BroadcastEnd(s, t, env.sok)
      [] label = "task" -> broadcast_navegadores(s, t, s.bcast[t].msg, "end", env)
      [] label = "d_finally" -> Finally(s, t, env)
      [] label = "solic_ok" -> Wait([s EXCEPT !.esperando_datos = TRUE], t, "o_loop")
      [] label = "solic_fail" ->
            broadcast_navegadores(s, t, DownloadError("Error al solicitar datos"),
                                  "o_loop", env)
      [] label = "del_hist" -> enviar_historial_sesiones(s, t, env.sok)
      [] label = "del_err" ->
            AfterSend(SendTo(s, t, t, SessionNotDeleted("Error"), env.sok),
                      t, Sent(s, t, env.sok), "o_loop", "o_finally")
      [] label = "o_finally" -> ObserverFinally(s, t)
      [] OTHER -> ContSimple(s, t, label, env.sok)

\* ------------------------------------------------------------- environment
\* What the environment decides in one step: w the observer a fan-out serves
\* next, sok whether the step's send finds its connection still open, wres the
\* outcome of a snapshot write, cok that of a CSV append.
Targets(t) ==
    IF pc[t] = "resume" /\ k[t] = "bcast" /\ bcast[t].todo # {} THEN bcast[t].todo
    ELSE IF conexiones_web = {} THEN {None}
    ELSE conexiones_web
Envs(t, W, K) == [w : Targets(t), sok : BOOLEAN, wres : W, cok : K]

Fresh == [State EXCEPT !.trace = <<>>]

\* what the Device loop hands to procesar_datos_sensor
IsSensorReading(m) ==
    /\ m.json = "obj"
    /\ m.action \notin {"calibrate", "get_calibration", "sending_data"}
    /\ m.device_id = "ESP32_WaterMonitor"

\* message m reaches the task of c waiting in recv()
Arrives(c, m) ==
    (pc[c] = "d_loop" /\ IsSensorReading(m)) => total_mensajes < MaxReadings
Received(c, m) == Event(Fresh, [e |-> "recv", by |-> c, msg |-> m])
\* recv() raises ConnectionClosed: the client has closed connection c
Closed(c) == [Fresh EXCEPT !.open[c] = FALSE]

\* what the Device loop treats as DownloadComplete
IsDownloadComplete(m) ==
    /\ m.json = "obj"
    /\ m.action = "data_complete"
    /\ m.device_id # "ESP32_WaterMonitor"

\* the Device loop of c has received m: a reading, a DownloadComplete, or other
Delivered(s, c, m) ==
    IF IsSensorReading(m)
    THEN [s EXCEPT !.rx[c] = Append(@, Rd(Len(s.arrivals) + 1, c, m.body)),
                   !.arrivals = Append(@, Rd(Len(s.arrivals) + 1, c, m.body)),
                   !.asked[c] = (s.pendingFor = c)]
    ELSE IF IsDownloadComplete(m) THEN [s EXCEPT !.pendingFor = None]
    ELSE s

\* a step has ended in state s: a request_all_data it delivered is pending
Forwarded(s) ==
    LET sent == {i \in DOMAIN s.trace :
                    /\ s.trace[i].e = "send"
                    /\ s.trace[i].ok
                    /\ s.trace[i].msg.type = "request_all_data"}
    IN IF sent = {} THEN s
       ELSE [s EXCEPT !.pendingFor = s.trace[CHOOSE i \in sent : TRUE].to]

\* ------------------------------------------------------------- actions
Tick ==
    /\ now < MaxTime
    /\ Assign([Fresh EXCEPT !.now = @ + 1])

\* websockets.serve accepts connection c and starts manejar_conexion
Accept(c) ==
    /\ pc[c] = "idle"
    /\ \A d \in 1..(c - 1) : pc[d] # "idle"
    /\ Assign([Fresh EXCEPT !.pc[c] = "handshake", !.open[c] = TRUE])

Handshake(c, m, W, K) ==
    /\ pc[c] = "handshake"
    /\ Arrives(c, m)
    /\ \E e \in Envs(c, W, K) : Assign(manejar_conexion(Received(c, m), c, m, e))

\* asyncio.wait_for(websocket.recv(), timeout=5.0) raises TimeoutError
HandshakeTimeout(c, W, K) ==
    /\ pc[c] = "handshake"
    /\ \E e \in Envs(c, W, K) : Assign(manejar_esp32(Classified(Fresh, c, "device"), c, e))

HandshakeClosed(c) ==
    /\ pc[c] = "handshake"
    /\ Assign(Done(Closed(c), c))

DeviceMessage(c, m, W, K) ==
    /\ pc[c] = "d_loop"
    /\ Arrives(c, m)
    /\ \E e \in Envs(c, W, K) :
            Assign(DeviceDispatch(Delivered(Received(c, m), c, m), c, m, e))

DeviceClosed(c, W, K) ==
    /\ pc[c] = "d_loop"
    /\ \E e \in Envs(c, W, K) : Assign(Finally(Closed(c), c, e))

ObserverMessage(c, m, W, K) ==
    /\ pc[c] = "o_loop"
    /\ Arrives(c, m)
    /\ \E e \in Envs(c, W, K) :
            Assign(Forwarded(ObserverDispatch(Received(c, m), c, m, e)))

ObserverClosed(c) ==
    /\ pc[c] = "o_loop"
    /\ Assign(ObserverFinally(Closed(c), c))

\* the event loop resumes task t
Resume(t, W, K) ==
    /\ pc[t] = "resume"
    /\ \E e \in Envs(t, W, K) : Assign(Cont(Fresh, t, e))

\* ------------------------------------------------------------- specification
\* the state after ServidorMonitorAgua.__init__ has loaded the snapshot h
InitWith(h) ==
    /\ now = 0
    /\ open = [c \in Conns |-> FALSE]
    /\ pc = [t \in Tasks |-> "idle"]
    /\ k = [t \in Tasks |-> "none"]
    /\ bcast = [t \in Tasks |-> NoBcast]
    /\ cur = [c \in Conns |-> NoRd]
    /\ conexion_esp32 = None
    /\ conexiones_web = {}
    /\ esperando_datos = FALSE
    /\ session_data = <<>>
    /\ session_start_time = -1
    /\ sessions_history = h
    /\ sessions_file = [valid |-> TRUE, content |-> h]
    /\ total_mensajes = 0
    /\ archivo_csv = <<>>
    /\ trace = <<>>
    /\ role = [c \in Conns |-> "none"]
    /\ lastDev = None
    /\ rx = [c \in Conns |-> <<>>]
    /\ arrivals = <<>>
    /\ mark = 0
    /\ cleanup = [c \in Conns |-> <<>>]
    /\ pendingFor = None
    /\ asked = [c \in Conns |-> FALSE]

\* every step but the clock's.  Clients send a first message of H, Devices go
\* on with messages of D and Observers with messages of O; snapshot writes end
\* as W allows and CSV appends as K allows.
Serve(H, D, O, W, K) ==
    \/ \E c \in Conns : Accept(c)
    \/ \E c \in Conns : \E m \in H : Handshake(c, m, W, K)
    \/ \E c \in Conns : HandshakeTimeout(c, W, K)
    \/ \E c \in Conns : HandshakeClosed(c)
    \/ \E c \in Conns : \E m \in D : DeviceMessage(c, m, W, K)
    \/ \E c \in Conns : DeviceClosed(c, W, K)
    \/ \E c \in Conns : \E m \in O : ObserverMessage(c, m, W, K)
    \/ \E c \in Conns : ObserverClosed(c)
    \/ \E t \in Tasks : Resume(t, W, K)

\* Devices sending readings, well formed or not, beside an Observer
Init == InitWith(<<>>)
Next ==
    \/ Tick
    \/ Serve({Hello, Other, Reading(BodyA)},
             {Reading(BodyA), Reading(BodyBadPh), Reading(BodyEmptyTemp),
              Reading(BodyRtcNull), Reading(BodyRtcSeconds), Other},
             {Other}, {"ok"}, {TRUE})
Spec == Init /\ [][Next]_vars

\* The snapshot an earlier run left behind, as load_sessions_history reads it:
\* three sessions, the first and the last closed within the same second.
OldHistory ==
    <<Session(-2, -4, -2, <<Rd(-3, None, BodyA)>>),
      Session(-3, -3, -3, <<Rd(-2, None, BodyB)>>),
      Session(-2, -2, -2, <<Rd(-1, None, BodyNoTemp)>>)>>

\* Observers deleting sessions of that History while a Device closes sessions,
\* with snapshot writes that may fail
InitDelete == InitWith(OldHistory)
NextDelete ==
    Serve({Hello, Other}, {Reading(BodyA)}, {Delete(-2), Delete(-3)},
          WriteResults, {TRUE})
SpecDelete == InitDelete /\ [][NextDelete]_vars

\* Observers requesting a download and sending calibration commands beside a
\* Device that sends readings and ends the download
NextDownload ==
    Serve({Hello, Other}, {Reading(BodyA), DataComplete, DataCompleteOf(2)},
          {RequestData, Calibrate},
          {"ok"}, {TRUE})
SpecDownload == Init /\ [][NextDownload]_vars

\* Readings with and without turbidity and tds, with a null rtc_timestamp and
\* with one in milliseconds, failing snapshot writes and failing CSV appends
NextFaults ==
    Serve({Hello, Other},
          {Reading(BodyA), Reading(BodyB), Reading(BodyRtcNull), Reading(BodyRtcHuge),
           Reading(BodyRtcHugeDated)},
          {RequestHistory},
          WriteResults, BOOLEAN)
SpecFaults == Init /\ [][NextFaults]_vars

\* Clients whose messages fail to decode or carry several discriminators
NextDecode ==
    Serve({Hello, Other, BadJson, ArrJson},
          {BadJson, ArrJson, Reading(BodyA), Reading(NoBody), ReadingComplete, Calibrate,
           SendingData, Other},
          {BadJson, ArrJson, CalibrateRequest, RequestData, Other},
          {"ok"}, {TRUE})
SpecDecode == Init /\ [][NextDecode]_vars

\* ------------------------------------------------------------- claims
\* what the last step did
Did(kind) == {i \in DOMAIN trace : trace[i].e = kind}
Sends == {i \in DOMAIN trace : trace[i].e = "send"}
\* the same of the step being taken
DidNext(kind) == {i \in DOMAIN trace' : trace'[i].e = kind}
SendsNext == {i \in DOMAIN trace' : trace'[i].e = "send"}
\* connection c is classified as Device in the step being taken
BecomesDevice(c) == role[c] = "none" /\ role'[c] = "device"
\* the finally block of Device c starts in the step being taken
CleansUp(c) == \E i \in DidNext("finally") : trace'[i].by = c

\* C1: the Device handle is absent or the Device connection classified last,
\* and classifying a Device connection makes it the handle, whether or not
\* another was registered.
C1_DeviceHandle ==
    /\ [](conexion_esp32 \in {None, lastDev})
    /\ [][\A c \in Conns : BecomesDevice(c) => conexion_esp32' = c]_vars

\* a second Device was classified while the first was registered and running
C1_Witness ==
    /\ role[1] = "device" /\ role[2] = "device"
    /\ pc[1] # "done" /\ cleanup[1] = <<>>
    /\ conexion_esp32 = 2

\* C2: once the task of a Device connection has ended, its cleanup has run
\* once and to the end: session close, handle cleared, status broadcast.
C2_CleanupCompletes ==
    \A c \in Conns :
        (role[c] = "device" /\ pc[c] = "done") => cleanup[c] = <<"close", "clear", "notify">>

\* C3: the cleanup of a Device connection, when its session close does not
\* raise, adds to History one Session holding exactly the readings received
\* on that connection, and nothing if there were none.
C3_SessionOfConnection ==
    [][\A c \in Conns :
         (CleansUp(c) /\ DidNext("raised") = {}) =>
            IF rx'[c] = <<>> THEN sessions_history' = sessions_history
            ELSE /\ Len(sessions_history') = Len(sessions_history) + 1
                 /\ sessions_history'[Len(sessions_history')].data = rx'[c]]_vars

\* connection c, a Device once the step is over, receives a SensorReading in it
ReceivesReading(c) ==
    /\ trace' # <<>>
    /\ trace'[1].e = "recv"
    /\ trace'[1].by = c
    /\ IsSensorReading(trace'[1].msg)
    /\ role'[c] = "device"

\* C4: a SensorReading a Device connection sends, its first message included,
\* is appended to the session buffer, then written as a row of the CSV log,
\* then broadcast to the registered Observers.
C4_ReadingProcessed ==
    [][\A c \in Conns :
         ReceivesReading(c) =>
            \E i \in DidNext("buffer") : \E j \in DidNext("csv") :
                /\ i < j
                /\ trace'[i].rd.body = trace'[1].msg.body
                /\ trace'[j].rd = trace'[i].rd /\ trace'[j].ok
                /\ session_data' # <<>>
                /\ session_data'[Len(session_data')] = trace'[i].rd
                /\ conexiones_web # {} =>
                      \E l \in SendsNext :
                          l > j /\ trace'[l].msg = ReadingMsg(trace'[i].rd)]_vars

\* C5: a Session appended to History has total_readings = Len(data), and its
\* data are the readings received since the session buffer was started, in
\* the order of their arrival, each once.
C5_SessionData ==
    /\ [](\A i \in DOMAIN sessions_history :
            sessions_history[i].total_readings = Len(sessions_history[i].data))
    /\ [][Len(sessions_history') = Len(sessions_history) + 1 =>
            LET session == sessions_history'[Len(sessions_history')] IN
            /\ session.data = SubSeq(arrivals', mark' + 1, Len(arrivals'))
            /\ session.total_readings = Len(session.data)
            /\ \A i, j \in DOMAIN session.data :
                   i < j => session.data[i].uid < session.data[j].uid]_vars

\* a Session of two readings has been appended
C5_Witness ==
    \E i \in DOMAIN sessions_history :
        /\ Len(sessions_history[i].data) = 2
        /\ sessions_history[i].data[1].uid = 1
        /\ sessions_history[i].data[2].uid = 2

\* C6: History never holds a Session without readings; a Device cleanup that
\* finds the session buffer empty leaves History and the snapshot as they
\* are and schedules no session_saved broadcast.
C6_NoEmptySession ==
    /\ [](\A i \in DOMAIN sessions_history : sessions_history[i].data # <<>>)
    /\ [][\A c \in Conns :
            (CleansUp(c) /\ session_data' = <<>>) =>
                /\ sessions_history' = sessions_history
                /\ sessions_file' = sessions_file
                /\ DidNext("append") = {} /\ DidNext("write") = {}
                /\ DidNext("create_task") = {}
                /\ pc'[TaskOf(c)] = "idle"
                /\ \A l \in SendsNext : trace'[l].msg.type # "session_saved"]_vars

\* a Device cleanup has just run on an empty session buffer
C6_Witness ==
    \E c \in Conns :
        /\ \E i \in Did("finally") : trace[i].by = c
        /\ cleanup[c] # <<>>
        /\ session_data = <<>>
        /\ sessions_history = <<>>

\* C7: no two entries of History share a session_id.
C7_UniqueSessionIds ==
    \A i, j \in DOMAIN sessions_history :
        i # j => sessions_history[i].session_id # sessions_history[j].session_id

\* Observer c receives a delete_session request in the step being taken
ReceivesDelete(c) ==
    /\ pc[c] = "o_loop"
    /\ trace' # <<>>
    /\ trace'[1].e = "recv"
    /\ trace'[1].by = c
    /\ trace'[1].msg.json = "obj"
    /\ trace'[1].msg.type = "delete_session"
\* the identifier it asks for, and the entries of History that carry it
Requested == trace'[1].msg.session_id
Matches(h, sid) == {i \in DOMAIN h : h[i].session_id = sid}
\* h without its entry at i
Without(h, i) == SubSeq(h, 1, i - 1) \o SubSeq(h, i + 1, Len(h))
\* the step being taken sends msg to c and nothing else
SendsOnly(c, msg) ==
    \E l \in SendsNext :
        SendsNext = {l} /\ trace'[l].to = c /\ trace'[l].msg = msg

\* C8: a delete_session request for an identifier no entry of History carries
\* is answered to the requester with session_deleted success=false, and
\* History and the snapshot stay as they are.
C8_DeleteAbsent ==
    [][\A c \in Conns :
         (ReceivesDelete(c) /\ Matches(sessions_history, Requested) = {}) =>
            /\ sessions_history' = sessions_history
            /\ sessions_file' = sessions_file
            /\ DidNext("pop") = {} /\ DidNext("write") = {}
            /\ \E l \in SendsNext :
                  /\ SendsNext = {l}
                  /\ trace'[l].to = c
                  /\ trace'[l].msg.type = "session_deleted"
                  /\ trace'[l].msg.success = FALSE]_vars

\* a request for an identifier that History, still holding sessions, does not
\* carry has just been refused
C8_Witness ==
    /\ trace # <<>>
    /\ trace[1].e = "recv"
    /\ trace[1].msg.type = "delete_session"
    /\ Did("pop") = {}
    /\ sessions_history # <<>>
    /\ Matches(sessions_history, trace[1].msg.session_id) = {}
    /\ \E l \in Sends : trace[l].ok /\ trace[l].msg = SessionNotDeleted("Sesion no encontrada")

\* the History a delete request leaves: the first match is gone, the rest is
\* in its order
FirstRemoved(c) ==
    ReceivesDelete(c) /\ Matches(sessions_history, Requested) # {} =>
        \E i \in Matches(sessions_history, Requested) :
            /\ \A j \in Matches(sessions_history, Requested) : i <= j
            /\ sessions_history' = Without(sessions_history, i)
\* the task of c sends History after a delete: all of it, to c alone
SendsHistory(c) ==
    (pc[c] = "resume" /\ k[c] = "del_hist" /\ k'[c] # "del_hist") =>
        SendsOnly(c, SessionsHistory(sessions_history))
\* History is sent after a delete only if the delete answered success=true
HistoryOnlyOnSuccess(c) ==
    (ReceivesDelete(c) /\ k'[c] = "del_hist") =>
        \E l \in SendsNext : trace'[l].msg.type = "session_deleted" /\ trace'[l].msg.success

\* C9 as stated: a delete_session request for an identifier History carries
\* removes the first match only, answers success=true with the new length of
\* History, then sends History to the requester only, and sends no History
\* when the delete fails.
C9_DeletePresent ==
    [][\A c \in Conns :
         /\ FirstRemoved(c)
         /\ (ReceivesDelete(c) /\ Matches(sessions_history, Requested) # {}) =>
               SendsOnly(c, SessionDeleted(Requested, Len(sessions_history')))
         /\ SendsHistory(c)
         /\ HistoryOnlyOnSuccess(c)]_vars

\* C9, amended: such a request removes the first match only; if the snapshot
\* rewrite succeeds it answers success=true with the new length of History
\* and, the answer delivered, sends History to the requester only; if the
\* rewrite fails it answers success=false and sends no History.
C9_DeleteRewritten ==
    [][\A c \in Conns :
         /\ FirstRemoved(c)
         /\ (ReceivesDelete(c) /\ Matches(sessions_history, Requested) # {}) =>
               \E w \in DidNext("write") :
                   /\ DidNext("write") = {w}
                   /\ IF trace'[w].ok
                      THEN /\ SendsOnly(c, SessionDeleted(Requested, Len(sessions_history')))
                           /\ sessions_file'.content = sessions_history'
                           /\ (\E l \in SendsNext : trace'[l].ok) =>
                                  pc'[c] = "resume" /\ k'[c] = "del_hist"
                      ELSE /\ \E l \in SendsNext :
                                 /\ SendsNext = {l}
                                 /\ trace'[l].to = c
                                 /\ trace'[l].msg.type = "session_deleted"
                                 /\ trace'[l].msg.success = FALSE
                           /\ k'[c] # "del_hist"
         /\ SendsHistory(c)
         /\ HistoryOnlyOnSuccess(c)]_vars

\* the first of two sessions with one identifier has been deleted and the
\* requester is being sent the History that is left
C9_Witness ==
    /\ sessions_history = <<OldHistory[2], OldHistory[3]>>
    /\ \E c \in Conns :
          /\ role[c] = "observer"
          /\ \E l \in Sends :
                /\ trace[l].to = c /\ trace[l].ok
                /\ trace[l].msg = SessionsHistory(<<OldHistory[2], OldHistory[3]>>)

\* a success acknowledgment of a History mutation
IsAck(m) ==
    \/ m.type = "session_saved"
    \/ m.type = "session_deleted" /\ m.success

\* C10 as stated: when session_saved or session_deleted success=true is sent
\* and delivered, the snapshot has been rewritten in full and equals the
\* in-memory History.
C10_AckSentWithSnapshotCurrent ==
    [][\A l \in SendsNext :
         (IsAck(trace'[l].msg) /\ trace'[l].ok) =>
            sessions_file' = [valid |-> TRUE, content |-> sessions_history']]_vars

\* Observer c receives a decoded message of the given type in the step taken
ObserverReceives(c, type) ==
    /\ pc[c] = "o_loop"
    /\ trace' # <<>>
    /\ trace'[1].e = "recv"
    /\ trace'[1].by = c
    /\ trace'[1].msg.json = "obj"
    /\ trace'[1].msg.type = type
\* the connections the step being taken sends to
SentToNext == {trace'[l].to : l \in SendsNext}

\* C11: request_data from an Observer while no Device handle is registered
\* starts a broadcast of download_error to the registered Observers, sends
\* nothing to a Device connection and leaves the pending-download flag alone.
C11_RequestWithoutDevice ==
    [][\A c \in Conns :
         (ObserverReceives(c, "request_data") /\ conexion_esp32 = None) =>
            /\ esperando_datos' = esperando_datos
            /\ conexion_esp32' = None
            /\ \A l \in SendsNext :
                  /\ trace'[l].msg = DownloadError("ESP32 no conectado")
                  /\ trace'[l].to \in conexiones_web
                  /\ role[trace'[l].to] = "observer"
            /\ SentToNext \cup bcast'[c].todo = conexiones_web
            /\ conexiones_web # {} =>
                  /\ SendsNext # {}
                  /\ bcast'[c].msg = DownloadError("ESP32 no conectado")]_vars

\* with two Observers registered and no Device, a request_data has just been
\* answered with the first download_error of the broadcast
C11_Witness ==
    /\ trace # <<>>
    /\ trace[1].e = "recv"
    /\ trace[1].msg.type = "request_data"
    /\ conexion_esp32 = None
    /\ conexiones_web = Conns
    /\ \E l \in Sends : trace[l].ok /\ trace[l].msg.type = "download_error"

\* task t is in the fan-out of a broadcast
InPass(t) == pc[t] = "resume" /\ k[t] = "bcast"
\* the sends of task t in the step being taken
SendsBy(t) == {l \in SendsNext : trace'[l].by = t}

\* C12: a broadcast sends its message once to each Observer of the registry
\* as it was when the fan-out started, whatever fails or changes meanwhile;
\* failed Observers leave the registry only when the pass is over, and the
\* broadcast removes no Observer whose send succeeded.
C12_FanOut ==
    [][\A t \in Tasks :
         \* the pass starts: the registry is its work list, one send is made
         /\ (~InPass(t) /\ InPass(t)') =>
               \E l \in SendsBy(t) :
                   /\ trace'[l].msg = bcast'[t].msg
                   /\ trace'[l].to \in conexiones_web'
                   /\ bcast'[t].todo = conexiones_web' \ {trace'[l].to}
                   /\ bcast'[t].failed = IF trace'[l].ok THEN {} ELSE {trace'[l].to}
         \* the pass goes on: one more Observer of the work list is served
         /\ (InPass(t) /\ InPass(t)') =>
               /\ bcast'[t].todo \subseteq bcast[t].todo
               /\ bcast'[t].msg = bcast[t].msg
               /\ bcast'[t].todo # bcast[t].todo =>
                     \E l \in SendsBy(t) :
                         /\ SendsBy(t) = {l}
                         /\ trace'[l].msg = bcast[t].msg
                         /\ bcast[t].todo \ bcast'[t].todo = {trace'[l].to}
                         /\ bcast'[t].failed =
                               IF trace'[l].ok THEN bcast[t].failed
                               ELSE bcast[t].failed \cup {trace'[l].to}
                         /\ conexiones_web' = conexiones_web
               /\ bcast'[t].todo = bcast[t].todo =>
                     bcast'[t] = bcast[t] /\ SendsBy(t) = {}
         \* the pass is over: nobody is left, and only now the failed ones go
         /\ (InPass(t) /\ ~InPass(t)') =>
               /\ bcast[t].todo = {}
               /\ conexiones_web' = conexiones_web \ bcast[t].failed]_vars

\* no pass is in progress; an Observer whose send failed in one has been
\* removed from the registry, its task still running, and another Observer
\* is registered
C12_Witness ==
    \E c, d \in Conns :
        /\ role[c] = "observer" /\ role[d] = "observer"
        /\ pc[c] = "o_loop" /\ c \notin conexiones_web
        /\ d \in conexiones_web
        /\ \A t \in Tasks : bcast[t] = NoBcast

\* the first message of connection c arrives in the step being taken
FirstMessage(c) ==
    /\ pc[c] = "handshake"
    /\ trace' # <<>>
    /\ trace'[1].e = "recv"
    /\ trace'[1].by = c

\* C13: a connection is classified once: Observer if its first message
\* decodes and has type web_browser, Device on any other first message and on
\* the handshake timeout; a classification never changes.
C13_ClassifiedOnce ==
    [][\A c \in Conns :
         /\ FirstMessage(c) =>
               role'[c] = IF trace'[1].msg.json = "obj" /\ trace'[1].msg.type = "web_browser"
                          THEN "observer" ELSE "device"
         /\ (pc[c] = "handshake" /\ pc'[c] \notin {"handshake", "done"} /\ ~FirstMessage(c)) =>
               role'[c] = "device"
         /\ role[c] # "none" => role'[c] = role[c]]_vars

\* the router state the claims on message handling speak of is unchanged
RouterUnchanged ==
    /\ conexion_esp32' = conexion_esp32
    /\ conexiones_web' = conexiones_web
    /\ session_data' = session_data
    /\ sessions_history' = sessions_history
    /\ sessions_file' = sessions_file
    /\ esperando_datos' = esperando_datos
    /\ archivo_csv' = archivo_csv

\* the loop of connection c receives, in the step being taken, a message
\* that decodes to no mapping: no JSON, or JSON that is no object
Undecodable(c) ==
    /\ pc[c] \in {"d_loop", "o_loop"}
    /\ trace' # <<>>
    /\ trace'[1].e = "recv"
    /\ trace'[1].by = c
    /\ trace'[1].msg.json \in {"bad", "arr"}

\* C15: a message that fails to decode, received by the loop of a Device or
\* an Observer, changes no router state, causes no send and leaves the
\* connection open and its task waiting for the next message.
C15_DecodeFailureSkipped ==
    [][\A c \in Conns :
         Undecodable(c) =>
            /\ RouterUnchanged
            /\ SendsNext = {}
            /\ open' = open
            /\ pc' = pc
            /\ cleanup' = cleanup]_vars

\* the intent of a decoded message, by the priority of its discriminators
Intent(m) ==
    CASE m.action \in {"calibrate", "get_calibration"} -> "calibration"
      [] m.action = "sending_data" -> "download_start"
      [] m.device_id = "ESP32_WaterMonitor" -> "reading"
      [] m.action = "data_complete" -> "download_complete"
      [] OTHER -> "none"

\* the loop of c, at pc value loop, receives a decoded message in the step
LoopReceives(c, loop) ==
    /\ pc[c] = loop
    /\ trace' # <<>>
    /\ trace'[1].e = "recv"
    /\ trace'[1].by = c
    /\ trace'[1].msg.json = "obj"

\* C16: a decoded message is handled by its highest-priority discriminator
\* only: calibration action, then sending_data, then the device_id of a
\* reading, then data_complete, and only then, for an Observer, its type; a
\* Device message that matches none changes nothing and sends nothing.
C16_DispatchPriority ==
    [][\A c \in Conns :
         LET m == trace'[1].msg IN
         /\ LoopReceives(c, "d_loop") =>
               CASE Intent(m) = "calibration" ->
                       /\ SendsOnly(c, Forward(m))
                       /\ RouterUnchanged
                 [] Intent(m) = "download_start" ->
                       /\ RouterUnchanged
                       /\ \A l \in SendsNext : trace'[l].msg.type = "download_start"
                 [] Intent(m) = "reading" ->
                       /\ DidNext("buffer") # {}
                       /\ esperando_datos' = esperando_datos
                 [] Intent(m) = "download_complete" ->
                       /\ DidNext("buffer") = {}
                       /\ esperando_datos' = FALSE
                       /\ \A l \in SendsNext : trace'[l].msg.type = "download_complete"
                 [] OTHER -> RouterUnchanged /\ SendsNext = {}
         /\ LoopReceives(c, "o_loop") =>
               IF Intent(m) = "calibration"
               THEN /\ RouterUnchanged
                    /\ \/ conexion_esp32 # None /\ SendsOnly(conexion_esp32, Forward(m))
                       \/ conexion_esp32 = None /\ SendsOnly(c, NoConectado)
               ELSE m.type \notin {"request_data", "request_sessions_history",
                                   "delete_session"} =>
                        RouterUnchanged /\ SendsNext = {}]_vars

\* C18: once the task of an Observer connection has ended, the connection is
\* not in the Observer registry.
C18_ObserverDeregistered ==
    \A c \in Conns :
        (role[c] = "observer" /\ pc[c] = "done") => c \notin conexiones_web

\* the task of Device c decides, in the step being taken, whether to
\* acknowledge a reading: at once when no Observer is registered, else when
\* the broadcast of the reading is over
DecidesAck(c) ==
    \/ cur[c] # NoRd /\ cur'[c] = NoRd
    \/ /\ LoopReceives(c, "d_loop")
       /\ IsSensorReading(trace'[1].msg)
       /\ conexiones_web = {}
       /\ DidNext("finally") = {}
\* the reading_number of the reading that decision is about
DecidedNumber(c) ==
    IF cur[c] # NoRd THEN cur[c].body.reading_number
    ELSE trace'[1].msg.body.reading_number
\* the acknowledgments sent in the step being taken
AcksNext == {l \in SendsNext : trace'[l].msg.type = "confirmacion"}

\* C14: a reading is acknowledged if and only if a request_data was forwarded
\* to its Device and no DownloadComplete has been processed since; the
\* acknowledgment goes to the connection that delivered the reading, with its
\* reading_number; DownloadComplete clears the pending flag and is broadcast
\* as download_complete.  The request counts as pending for a reading when it
\* was so both when the reading arrived and when the decision is taken, and
\* as not pending when it was so at neither moment.
C14_AckWhilePending ==
    [][\A c \in Conns :
         LET acked == \E l \in AcksNext :
                         /\ trace'[l].by = c /\ trace'[l].to = c
                         /\ trace'[l].msg = Confirmacion(DecidedNumber(c))
         IN /\ DecidesAck(c) =>
                  /\ (asked'[c] /\ pendingFor = c) => acked
                  /\ (~asked'[c] /\ pendingFor # c) => ~acked
            /\ \A l \in AcksNext :
                  trace'[l].by = c =>
                      /\ DecidesAck(c)
                      /\ trace'[l].to = c
                      /\ trace'[l].msg = Confirmacion(DecidedNumber(c))
            /\ (LoopReceives(c, "d_loop") /\ IsDownloadComplete(trace'[1].msg)) =>
                  /\ esperando_datos' = FALSE
                  /\ \A l \in SendsNext :
                        trace'[l].msg = DownloadComplete(Get0(trace'[1].msg.total), now)
                  /\ conexiones_web # {} => SendsNext # {}]_vars

\* C17: a calibrate or get_calibration command from an Observer is sent
\* unchanged to the registered Device and to no other connection; with no
\* Device registered, exactly one error reply goes to the requester and
\* nothing else is sent; the session buffer, History and the pending flag
\* are unchanged in both cases.
C17_CalibrationForwarded ==
    [][\A c \in Conns :
         (LoopReceives(c, "o_loop") /\ Intent(trace'[1].msg) = "calibration") =>
            /\ IF conexion_esp32 # None
               THEN SendsOnly(conexion_esp32, Forward(trace'[1].msg))
               ELSE SendsOnly(c, NoConectado)
            /\ session_data' = session_data
            /\ sessions_history' = sessions_history
            /\ esperando_datos' = esperando_datos]_vars

\* the values of one quantity in the readings that carry it as a number
\* passing the quantity's validity check
ValidValues(data, field(_), valid(_)) ==
    LET kept == SelectSeq(data, LAMBDA d : /\ field(d.body).t = "num"
                                           /\ valid(field(d.body).v))
    IN [i \in 1..Len(kept) |-> field(kept[i].body).v]
\* avg, min and max over the values q; the average is a fraction
Over(q, st) ==
    IF q = <<>> THEN st.avg[1] = 0 /\ st.min = 0 /\ st.max = 0
    ELSE /\ st.avg[1] * Len(q) = SumSeq(q) * st.avg[2]
         /\ st.min = MinSeq(q)
         /\ st.max = MaxSeq(q)
         /\ st.min * st.avg[2] <= st.avg[1]
         /\ st.avg[1] <= st.max * st.avg[2]

\* C20: the summary of a closed session gives, for temperature, pH, turbidity
\* and TDS, the average, minimum and maximum over exactly the readings in
\* which the quantity is present and valid, with min <= avg <= max, and a
\* close adds exactly one History entry.
C20_SummaryOverValid ==
    /\ \A i \in DOMAIN sessions_history :
          LET h == sessions_history[i] IN
          /\ Over(ValidValues(h.data, LAMBDA b : b.temperature, LAMBDA v : v # 0),
                  h.summary.temperature)
          /\ Over(ValidValues(h.data, LAMBDA b : b.ph, LAMBDA v : v > 0),
                  h.summary.ph)
          /\ Over(ValidValues(h.data, LAMBDA b : b.turbidity, LAMBDA v : v >= 0),
                  h.summary.turbidity)
          /\ Over(ValidValues(h.data, LAMBDA b : b.tds, LAMBDA v : v >= 0),
                  h.summary.tds)
    /\ Did("append") # {} => Cardinality(Did("append")) = 1

\* the step being taken is a cleanup of Device c whose snapshot write fails
FailsSnapshot(c) ==
    /\ \E i \in DidNext("finally") : trace'[i].by = c
    /\ \E i \in DidNext("write") : ~trace'[i].ok
\* the step being taken lets task c start or skip the broadcast of msg
Broadcasts(c, msg) ==
    \/ conexiones_web = {}
    \/ \E l \in SendsNext :
          trace'[l].by = c /\ trace'[l].to \in conexiones_web /\ trace'[l].msg = msg

\* C19: a failed durable write neither aborts the operation in progress nor
\* rolls memory back.  A cleanup whose snapshot write fails still appends the
\* Session to the History, clears the Device handle and broadcasts the
\* disconnected status; no Session leaves the History but by a delete; every
\* successful write leaves the whole History in the snapshot; a reading whose
\* CSV append fails is still buffered and broadcast.
C19_WriteFailureTolerated ==
    [][/\ \A c \in Conns :
            FailsSnapshot(c) =>
               /\ \E i \in DidNext("append") :
                     /\ trace'[i].session.data = session_data'
                     /\ sessions_history' = Append(sessions_history, trace'[i].session)
               /\ DidNext("clear") # {}
               /\ conexion_esp32' = None
               /\ Broadcasts(c, StatusMsg(FALSE))
               /\ conexiones_web = {} => pc'[c] = "done"
       /\ DidNext("pop") = {} =>
             /\ Len(sessions_history') >= Len(sessions_history)
             /\ SubSeq(sessions_history', 1, Len(sessions_history)) = sessions_history
       /\ \A i \in DidNext("write") :
             trace'[i].ok => sessions_file' = [valid |-> TRUE, content |-> sessions_history']
       /\ \A i \in DidNext("csv") :
             ~trace'[i].ok =>
                /\ session_data' # <<>>
                /\ session_data'[Len(session_data')] = trace'[i].rd
                /\ DidNext("buffer") # {}
                /\ Broadcasts(trace'[i].rd.conn, ReadingMsg(trace'[i].rd))]_vars

\* task t, suspended at label, runs in the step being taken
Resumes(t, label) == pc[t] = "resume" /\ k[t] = label /\ k'[t] # label

\* C21: on request_data with a Device registered the pending flag becomes
\* true only once request_all_data was sent to the Device without error; when
\* that send fails the flag is left as it was and download_error is broadcast
\* to the Observers.
C21_FlagAfterSend ==
    [][/\ \A c \in Conns :
            /\ (ObserverReceives(c, "request_data") /\ conexion_esp32 # None) =>
                  /\ SendsOnly(conexion_esp32, RequestAll(now))
                  /\ esperando_datos' = esperando_datos
                  /\ \A l \in SendsNext :
                        k'[c] = IF trace'[l].ok THEN "solic_ok" ELSE "solic_fail"
            /\ Resumes(c, "solic_fail") =>
                  /\ esperando_datos' = esperando_datos
                  /\ Broadcasts(c, DownloadError("Error al solicitar datos"))
                  /\ \A l \in SendsNext :
                        trace'[l].msg = DownloadError("Error al solicitar datos")
            /\ Resumes(c, "solic_ok") => esperando_datos' /\ SendsNext = {}
       /\ (~esperando_datos /\ esperando_datos') =>
             \E c \in Conns : Resumes(c, "solic_ok")]_vars

\* C21 witness: the send of request_all_data has failed, download_error has
\* reached an Observer and no download is pending.
C21_Witness ==
    /\ ~esperando_datos
    /\ \E l \in Sends :
          /\ trace[l].ok
          /\ trace[l].msg = DownloadError("Error al solicitar datos")

\* the session_saved broadcast scheduled by the cleanup of Device c has not
\* begun
SavedWaiting(c) ==
    /\ pc[TaskOf(c)] = "resume"
    /\ k[TaskOf(c)] = "task"
    /\ bcast[TaskOf(c)].msg.type = "session_saved"

\* C22: the session_saved broadcast scheduled at a session close runs before
\* the next observable state change of the disconnect: the Device handle is
\* not yet cleared by the cleanup when the broadcast starts, and no
\* esp32_status connected=false of the disconnect is sent while the
\* broadcast has still to begin.
C22_SavedBeforeStatus ==
    [][\A c \in Conns :
         /\ (SavedWaiting(c) /\ k'[TaskOf(c)] # "task") =>
               ~\E i \in DOMAIN cleanup[c] : cleanup[c][i] = "clear"
         /\ SavedWaiting(c)' =>
               ~\E l \in SendsNext :
                   trace'[l].by = c /\ trace'[l].msg = StatusMsg(FALSE)]_vars

\* c is the Device connection classified last, its task runs and its own
\* cleanup has not begun
CurrentDevice(c) ==
    /\ role[c] = "device"
    /\ lastDev = c
    /\ pc[c] # "done"
    /\ cleanup[c] = <<>>

\* C23: the Device handle refers to the Device connection classified last
\* while that connection's task runs; the cleanup of an older, superseded
\* Device connection never clears that handle, never closes a session holding
\* the newer connection's readings and never broadcasts esp32_status
\* connected=false while the newer Device is connected.
C23_SupersededCleanup ==
    /\ [](\A c \in Conns : CurrentDevice(c) => conexion_esp32 = c)
    /\ [][\A c \in Conns : \A o \in Conns \ {c} :
            CurrentDevice(c)' =>
               /\ CleansUp(o) =>
                     \A i \in DidNext("append") :
                        \A j \in DOMAIN trace'[i].session.data :
                           trace'[i].session.data[j].conn # c
               /\ \A l \in SendsNext :
                     trace'[l].by = o => trace'[l].msg # StatusMsg(FALSE)]_vars

\* C24: whenever no Device handle is registered no download is pending, so
\* that a download left pending by a Device that disconnected is not
\* acknowledged to a Device connecting later.
C24_NoPendingWithoutDevice ==
    conexion_esp32 = None => ~esperando_datos

\* the readings (by identity) in the data of a closed Session
ReadingsOf(h) == {h.data[j].uid : j \in DOMAIN h.data}

\* C25: a received SensorReading is in the data of at most one closed Session
\* of the History.
C25_ReadingInOneSession ==
    \A i \in DOMAIN sessions_history : \A j \in DOMAIN sessions_history :
        i # j => ReadingsOf(sessions_history[i]) \cap ReadingsOf(sessions_history[j]) = {}

\* the step being taken answers session_deleted success=false
Refuses ==
    \E l \in SendsNext :
        trace'[l].msg.type = "session_deleted" /\ ~trace'[l].msg.success

\* C26 as stated: whenever a delete_session request is answered success=false,
\* for an absent identifier or for a failed rewrite, History is what it was
\* before the request.
C26_RefusedDeleteKeepsHistory ==
    [][\A c \in Conns :
         (ReceivesDelete(c) /\ Refuses) => sessions_history' = sessions_history]_vars

\* C26, amended: a request refused because no entry carries the identifier
\* leaves History as it was and writes nothing; a request refused because the
\* rewrite failed leaves History without the first match; the later error
\* answer to a requester whose reply could not be sent changes nothing more.
C26_RefusedDeleteHistory ==
    [][\A c \in Conns :
         /\ (ReceivesDelete(c) /\ Refuses) =>
               IF Matches(sessions_history, Requested) = {}
               THEN sessions_history' = sessions_history /\ DidNext("write") = {}
               ELSE /\ \E w \in DidNext("write") : ~trace'[w].ok
                    /\ sessions_history' =
                          Without(sessions_history, FirstMatch(sessions_history, Requested))
         /\ Resumes(c, "del_err") =>
               /\ sessions_history' = sessions_history
               /\ SendsOnly(c, SessionNotDeleted("Error"))]_vars

\* C26 witness: a delete of the first entry has just been refused to its
\* requester because the rewrite failed, and the entry is gone from History
\* while the snapshot does not hold History.
C26_Witness ==
    /\ trace # <<>>
    /\ trace[1].e = "recv"
    /\ trace[1].msg = Delete(OldHistory[1].session_id)
    /\ \E w \in Did("write") : ~trace[w].ok
    /\ \E l \in Sends : trace[l].ok /\ trace[l].msg = SessionNotDeleted("Error")
    /\ sessions_history = Tail(OldHistory)
    /\ sessions_file.content # sessions_history

\* Observer c forwards a calibration command in the step being taken and the
\* send to the Device fails
ForwardFails(c) ==
    /\ LoopReceives(c, "o_loop")
    /\ \E l \in SendsNext :
          /\ trace'[l].by = c
          /\ trace'[l].to = conexion_esp32
          /\ trace'[l].msg = Forward(trace'[1].msg)
          /\ ~trace'[l].ok

\* C27: a failed send to the Device while an Observer's calibration command
\* is forwarded neither ends the Observer's connection nor removes it from
\* the registry: the Observer goes on waiting for its next message.
C27_ForwardFailureKeepsObserver ==
    [][\A c \in Conns :
         ForwardFails(c) =>
            /\ c \in conexiones_web'
            /\ open'[c] = open[c]
            /\ pc'[c] = "o_loop"]_vars

====
